---- MODULE Spec2Model ----
(***************************************************************************)
(* Model of the template_tree action plugin (src/template_tree.py).        *)
(*                                                                         *)
(* Strings are sequences of one-character strings, so that os.path and    *)
(* pathlib operations (normpath, join, basename, endswith, slicing) are    *)
(* computed character by character as the code computes them.  A PurePath  *)
(* is the sequence of its parts, the root "/" being the first part of an   *)
(* absolute path.                                                          *)
(***************************************************************************)
EXTENDS Integers, Sequences, FiniteSets, TLC

(***************************************************************************)
(* Bounds of the model.                                                    *)
(***************************************************************************)
\* Longest src list that is tried.
MaxRoots == 2

\* Longest list of operation results that _build_output is applied to.
MaxResults == 2

(***************************************************************************)
(* Python str / os.path / pathlib, on character sequences.                 *)
(***************************************************************************)
\* os.path.sep
sep == "/"

\* ActionModule.TEMPLATE_EXTENSION
TEMPLATE_EXTENSION == <<".", "j", "2">>

\* Value of a PurePath operation that raised ValueError: a path with an empty
\* part, which PurePath never builds.
Raised == << <<>> >>

\* str.startswith
StartsWith(s, prefix) ==
    /\ Len(prefix) <= Len(s)
    /\ SubSeq(s, 1, Len(prefix)) = prefix

\* str.endswith
EndsWith(s, suffix) ==
    /\ Len(suffix) <= Len(s)
    /\ SubSeq(s, Len(s) - Len(suffix) + 1, Len(s)) = suffix

\* str.rfind(sep) + 1: the index (1-based) after the last separator, 1 if none.
AfterLastSep(s) ==
    LET idx == {i \in 1..Len(s) : s[i] = sep}
    IN  IF idx = {} THEN 1 ELSE (CHOOSE i \in idx : \A j \in idx : j <= i) + 1

\* str.split(sep): the segments between separators (empty ones included).
RECURSIVE Split(_)
Split(s) ==
    LET idx == {i \in 1..Len(s) : s[i] = sep}
    IN  IF idx = {} THEN <<s>>
        ELSE LET i == CHOOSE k \in idx : \A j \in idx : k <= j
             IN  <<SubSeq(s, 1, i - 1)>> \o Split(SubSeq(s, i + 1, Len(s)))

\* sep.join(comps)
RECURSIVE JoinSep(_)
JoinSep(comps) ==
    IF comps = <<>> THEN <<>>
    ELSE IF Len(comps) = 1 THEN comps[1]
    ELSE comps[1] \o <<sep>> \o JoinSep(Tail(comps))

\* str.rstrip(sep)
RECURSIVE RStripSep(_)
RStripSep(s) ==
    IF s # <<>> /\ s[Len(s)] = sep THEN RStripSep(SubSeq(s, 1, Len(s) - 1)) ELSE s

\* posixpath.basename
basename(p) == SubSeq(p, AfterLastSep(p), Len(p))

\* posixpath.dirname
dirname(p) ==
    LET head == SubSeq(p, 1, AfterLastSep(p) - 1)
    IN  IF head # <<>> /\ (\E i \in 1..Len(head) : head[i] # sep)
        THEN RStripSep(head) ELSE head

\* posixpath.join(a, b)
join(a, b) ==
    IF StartsWith(b, <<sep>>) THEN b
    ELSE IF a = <<>> \/ EndsWith(a, <<sep>>) THEN a \o b
    ELSE a \o <<sep>> \o b

\* The loop of posixpath.normpath over the components.
RECURSIVE NormComps(_, _, _)
NormComps(comps, new_comps, initial_slashes) ==
    IF comps = <<>> THEN new_comps
    ELSE LET comp == Head(comps)
             rest == Tail(comps)
             dotdot == <<".", ".">>
         IN  IF comp = <<>> \/ comp = <<".">>
             THEN NormComps(rest, new_comps, initial_slashes)
             ELSE IF \/ comp # dotdot
                     \/ (initial_slashes = 0 /\ new_comps = <<>>)
                     \/ (new_comps # <<>> /\ new_comps[Len(new_comps)] = dotdot)
             THEN NormComps(rest, Append(new_comps, comp), initial_slashes)
             ELSE IF new_comps # <<>>
             THEN NormComps(rest, SubSeq(new_comps, 1, Len(new_comps) - 1),
                            initial_slashes)
             ELSE NormComps(rest, new_comps, initial_slashes)

\* posixpath.normpath
normpath(p) ==
    IF p = <<>> THEN <<".">>
    ELSE LET initial_slashes ==
                 IF ~StartsWith(p, <<sep>>) THEN 0
                 ELSE IF StartsWith(p, <<sep, sep>>) /\ ~StartsWith(p, <<sep, sep, sep>>)
                 THEN 2 ELSE 1
             body == JoinSep(NormComps(Split(p), <<>>, initial_slashes))
             res == [i \in 1..initial_slashes |-> sep] \o body
         IN  IF res = <<>> THEN <<".">> ELSE res

\* pathlib.PurePath(str): the parts; "." and empty segments collapse, ".."
\* is kept.
PurePath(s) ==
    LET segs == SelectSeq(Split(s), LAMBDA c : c # <<>> /\ c # <<".">>)
    IN  IF StartsWith(s, <<sep>>) THEN <<(<<sep>>)>> \o segs ELSE segs

\* str(PurePath)
PathStr(pp) ==
    IF pp = <<>> THEN <<".">>
    ELSE IF pp[1] = <<sep>> THEN <<sep>> \o JoinSep(Tail(pp))
    ELSE JoinSep(pp)

\* PurePath.is_absolute
is_absolute(pp) == pp # <<>> /\ pp[1] = <<sep>>

\* PurePath.is_relative_to
is_relative_to(pp, other) ==
    /\ Len(other) <= Len(pp)
    /\ SubSeq(pp, 1, Len(other)) = other

\* PurePath.relative_to: raises ValueError unless pp is at or under other.
relative_to(pp, other) ==
    IF is_relative_to(pp, other)
    THEN SubSeq(pp, Len(other) + 1, Len(pp))
    ELSE Raised

(***************************************************************************)
(* The controller's files directory: the tree the src arguments resolve in.*)
(***************************************************************************)
\* Directory that path_dwim_relative(basedir, "files", ...) resolves against.
FilesDir == <<"/", "s">>

\* os.listdir of each local directory, split as os.walk splits it.
LocalDirs ==
    (<<"/", "s", "/", "a">> :>
        [dirs |-> << <<"d">> >>, files |-> << <<"x">>, <<"t", ".", "j", "2">> >>])
 @@ (<<"/", "s", "/", "a", "/", "d">> :>
        [dirs |-> <<>>, files |-> << <<"y">> >>])
 @@ (<<"/", "s", "/", "b">> :>
        [dirs |-> << <<"t">>, <<"d">> >>, files |-> << <<"x">>, <<"l">> >>])
 @@ (<<"/", "s", "/", "b", "/", "t">> :>
        [dirs |-> <<>>, files |-> <<>>])
 @@ (<<"/", "s", "/", "b", "/", "d">> :>
        [dirs |-> << <<"z", ".", "j", "2">> >>, files |-> <<>>])
 @@ (<<"/", "s", "/", "b", "/", "d", "/", "z", ".", "j", "2">> :>
        [dirs |-> <<>>, files |-> <<>>])

\* Text of each local regular file.
LocalFiles ==
    (<<"/", "s", "/", "a", "/", "x">> :> "A")
 @@ (<<"/", "s", "/", "a", "/", "t", ".", "j", "2">> :> "T")
 @@ (<<"/", "s", "/", "a", "/", "d", "/", "y">> :> "Y")
 @@ (<<"/", "s", "/", "b", "/", "x">> :> "B")
 @@ (<<"/", "s", "/", "c", "/", ".", "j", "2">> :> "J")

\* The values of the src argument that are tried (elements of the list).
SrcChoices ==
    { <<"a", "/">>, <<"a">>, <<"b", "/">>, <<"b">>,
      <<"a", "/", "x">>, <<"b", "/", "x">>, <<"c", "/", ".", "j", "2">> }

\* self._loader.path_dwim_relative(basedir, "files", p)
path_dwim_relative(p) == normpath(join(FilesDir, p))

\* path.exists(p) and stat.S_ISREG(os.lstat(p).st_mode)
IsRegularFile(p) == normpath(p) \in DOMAIN LocalFiles

\* filetree's file_props: state of the local object at root/relpath; what is
\* neither a regular file nor a directory is a symbolic link (b/l).
LocalState(p) ==
    IF normpath(p) \in DOMAIN LocalFiles THEN "file"
    ELSE IF normpath(p) \in DOMAIN LocalDirs THEN "directory"
    ELSE "link"

\* Stands for the absence of the 'src' key in a directory entry.
NoSrc == <<>>

\* filetree's file_props(root, path)
file_props(root, relpath) ==
    LET abspath == join(root, relpath)
        state == LocalState(abspath)
    IN  [root |-> root, path |-> relpath, state |-> state,
         src |-> IF state = "file" THEN abspath ELSE NoSrc]

\* os.walk(top, topdown=True) as filetree consumes it: for each directory,
\* the relative paths of dirs + files, then the subdirectories in turn.
RECURSIVE WalkRel(_, _)
RECURSIVE WalkDirs(_, _, _)
WalkRel(top, rel) ==
    LET here == normpath(join(top, rel))
    IN  IF here \notin DOMAIN LocalDirs THEN <<>>
        ELSE LET ls == LocalDirs[here]
                 names == ls.dirs \o ls.files
             IN  [i \in 1..Len(names) |-> join(rel, names[i])]
                 \o WalkDirs(top, rel, ls.dirs)

WalkDirs(top, rel, dirs) ==
    IF dirs = <<>> THEN <<>>
    ELSE WalkRel(top, join(rel, Head(dirs))) \o WalkDirs(top, rel, Tail(dirs))

\* The inner loop of filetree's run() over one term's walk: an entry is kept
\* unless its relative path was already returned (from an earlier root).
RECURSIVE FiletreeTerm(_, _, _)
FiletreeTerm(root, relpaths, ret) ==
    IF relpaths = <<>> THEN ret
    ELSE LET relpath == Head(relpaths)
             seen == \E i \in 1..Len(ret) : ret[i].path = relpath
         IN  FiletreeTerm(root, Tail(relpaths),
                 IF seen THEN ret ELSE Append(ret, file_props(root, relpath)))

\* community.general.filetree run(terms)
RECURSIVE FiletreeRun(_, _)
FiletreeRun(terms, ret) ==
    IF terms = <<>> THEN ret
    ELSE LET term == Head(terms)
             term_file == basename(term)
             dwimmed_path == path_dwim_relative(dirname(term))
             root == join(dwimmed_path, term_file)
         IN  FiletreeRun(Tail(terms), FiletreeTerm(root, WalkRel(root, <<>>), ret))

filetree_lookup(local_paths) == FiletreeRun(local_paths, <<>>)

\* ActionModule._get_local_entries: the loop over local_paths.
RECURSIVE LocalEntriesLoop(_, _, _)
LocalEntriesLoop(todo, local_paths, entries) ==
    IF todo = <<>> THEN entries
    ELSE LET local_path == Head(todo)
             found_path == path_dwim_relative(local_path)
         IN  IF IsRegularFile(found_path)
             THEN LocalEntriesLoop(Tail(todo), local_paths,
                      Append(entries,
                          [root |-> dirname(found_path) \o <<sep>>,
                           path |-> basename(found_path),
                           state |-> "file",
                           src |-> found_path]))
             ELSE LocalEntriesLoop(Tail(todo), local_paths,
                      Append(entries,
                          [root |-> local_path, path |-> <<>>,
                           state |-> "directory", src |-> NoSrc])
                      \o filetree_lookup(local_paths))

\* ActionModule._get_local_entries
_get_local_entries(local_paths) == LocalEntriesLoop(local_paths, local_paths, <<>>)

(***************************************************************************)
(* Path mapping and content resolution.                                    *)
(***************************************************************************)
\* Stands for None and for the absence of a key.
None == "None"

\* Stands for the absence of the 'content' key.
NoContent == <<>>

\* A faulty destination_path, which never nests an entry under the basename
\* of its root.
destination_path_contents_only(local_entry, remote_path) ==
    normpath(join(remote_path, normpath(local_entry.path)))

\* ActionModule._get_entries_to_create, lines 196-207: the mapped path of one
\* local entry.
destination_path(local_entry, remote_path) ==
    LET relative_path == normpath(local_entry.path)
        destination_root ==
            IF ~EndsWith(local_entry.root, <<sep>>)
            THEN join(remote_path, basename(local_entry.root))
            ELSE remote_path
    IN  normpath(join(destination_root, relative_path))

\* A faulty create_entry, which takes the template suffix off the dest of a
\* directory as well.
create_entry_any_kind(local_entry, remote_path, owner, group, file_mode, directory_mode) ==
    LET mapped == destination_path(local_entry, remote_path)
        is_file == local_entry.state = "file"
        template == EndsWith(mapped, TEMPLATE_EXTENSION)
    IN  [dest |-> IF template
                  THEN SubSeq(mapped, 1, Len(mapped) - Len(TEMPLATE_EXTENSION))
                  ELSE mapped,
         state |-> local_entry.state,
         owner |-> owner,
         group |-> group,
         src |-> IF is_file THEN local_entry.src ELSE NoSrc,
         template |-> is_file /\ template,
         mode |-> IF is_file THEN file_mode ELSE directory_mode,
         content |-> NoContent]

\* ActionModule._get_entries_to_create, lines 209-229: the planned entry of
\* one local entry of state file or directory.
create_entry(local_entry, remote_path, owner, group, file_mode, directory_mode) ==
    LET mapped == destination_path(local_entry, remote_path)
        is_file == local_entry.state = "file"
        template == is_file /\ EndsWith(mapped, TEMPLATE_EXTENSION)
    IN  [dest |-> IF template
                  THEN SubSeq(mapped, 1, Len(mapped) - Len(TEMPLATE_EXTENSION))
                  ELSE mapped,
         state |-> local_entry.state,
         owner |-> owner,
         group |-> group,
         src |-> IF is_file THEN local_entry.src ELSE NoSrc,
         template |-> template,
         mode |-> IF is_file THEN file_mode ELSE directory_mode,
         content |-> NoContent]

\* ActionModule._get_entries_to_create: entries of any other state are
\* skipped with a warning.
RECURSIVE _get_entries_to_create(_, _, _, _, _, _)
_get_entries_to_create(local_entries, remote_path, owner, group, file_mode, directory_mode) ==
    IF local_entries = <<>> THEN <<>>
    ELSE LET local_entry == Head(local_entries)
             rest == _get_entries_to_create(Tail(local_entries), remote_path,
                         owner, group, file_mode, directory_mode)
         IN  IF local_entry.state \in {"file", "directory"}
             THEN <<create_entry(local_entry, remote_path, owner, group,
                                 file_mode, directory_mode)>> \o rest
             ELSE rest

\* ActionModule._template_local_file_contents: the template lookup's text.
_template_local_file_contents(src) == <<"rendered", LocalFiles[normpath(src)]>>

\* ActionModule._get_local_file_contents: the file's text.
_get_local_file_contents(src) == <<"text", LocalFiles[normpath(src)]>>

\* A faulty _set_file_contents, which reads every file as it is and renders
\* no template.
_set_file_contents_unrendered(entries) ==
    [i \in 1..Len(entries) |->
        IF entries[i].state = "file"
        THEN [entries[i] EXCEPT !.content = _get_local_file_contents(entries[i].src)]
        ELSE entries[i]]

\* ActionModule._set_file_contents
_set_file_contents(entries) ==
    [i \in 1..Len(entries) |->
        IF entries[i].state = "file"
        THEN [entries[i] EXCEPT !.content =
                 IF entries[i].template
                 THEN _template_local_file_contents(entries[i].src)
                 ELSE _get_local_file_contents(entries[i].src)]
        ELSE entries[i]]

(***************************************************************************)
(* The destination listing and the delete plan.                            *)
(***************************************************************************)
\* ActionModule._get_remote_entries: the find module's listing of everything
\* under remote_path, each path turned into a PurePath.
_get_remote_entries(tree, remote_path) ==
    LET under == SelectSeq(tree, LAMBDA o :
                     /\ is_relative_to(PurePath(o.path), PurePath(remote_path))
                     /\ PurePath(o.path) # PurePath(remote_path))
    IN  [i \in 1..Len(under) |->
            [path |-> PurePath(under[i].path \o <<sep, ".">>),
             isdir |-> under[i].isdir,
             isreg |-> under[i].isreg]]

\* ActionModule._parse_path_list: map(PurePath, paths), or the AnsibleError
\* raised when a value is not path-like.
_parse_path_list(arg) ==
    LET paths == arg.items
    IN  IF \E i \in 1..Len(paths) : ~paths[i].pathlike
        THEN [raised |-> TRUE,
              msg |-> IF arg.is_list THEN "contains values of an invalid type"
                      ELSE "is of an invalid type",
              paths |-> <<>>]
        ELSE [raised |-> FALSE, msg |-> "",
              paths |-> [i \in 1..Len(paths) |-> PurePath(paths[i].text)]]

\* A faulty rewrite_ignore, which leaves an absolute path that is not under
\* remote_path as it is instead of raising.
rewrite_ignore_unchecked(exclusive_ignore, remote_path) ==
    [i \in 1..Len(exclusive_ignore) |->
        IF is_relative_to(exclusive_ignore[i], PurePath(remote_path))
        THEN relative_to(exclusive_ignore[i], PurePath(remote_path))
        ELSE exclusive_ignore[i]]

\* ActionModule._get_entries_to_delete, lines 277-282: absolute ignore paths
\* made relative to remote_path.
rewrite_ignore(exclusive_ignore, remote_path) ==
    [i \in 1..Len(exclusive_ignore) |->
        IF is_absolute(exclusive_ignore[i])
        THEN relative_to(exclusive_ignore[i], PurePath(remote_path))
        ELSE exclusive_ignore[i]]

\* ActionModule._get_entries_to_delete, lines 291-298: index of the first
\* planned entry at the remote path, 0 if there is none.
local_match(local_entries, absolute_path) ==
    LET hits == {i \in 1..Len(local_entries) :
                    PurePath(local_entries[i].dest) = absolute_path}
    IN  IF hits = {} THEN 0 ELSE CHOOSE i \in hits : \A j \in hits : i <= j

\* ActionModule._get_entries_to_delete, lines 326-333
remote_state(remote_entry) ==
    IF remote_entry.isdir THEN "directory"
    ELSE IF remote_entry.isreg THEN "file"
    ELSE "other"

\* A faulty ignore_match, which compares the paths as text: a path whose name
\* only starts like an ignored one is then kept too.
ignore_match_prefix(relative_path, exclusive_ignore) ==
    \E i \in 1..Len(exclusive_ignore) :
        StartsWith(PathStr(relative_path), PathStr(exclusive_ignore[i]))

\* ActionModule._get_entries_to_delete, lines 302-309
ignore_match(relative_path, exclusive_ignore) ==
    \E i \in 1..Len(exclusive_ignore) :
        is_relative_to(relative_path, exclusive_ignore[i])

\* A faulty is_deleted, which does not look at exclusive for an entry at no
\* planned path.
is_deleted_always_exclusive(remote_entry, local_entries, remote_path, exclusive, exclusive_ignore) ==
    LET absolute_path == remote_entry.path
        relative_path == relative_to(absolute_path, PurePath(remote_path))
        m == local_match(local_entries, absolute_path)
    IN  IF m = 0
        THEN ~ignore_match(relative_path, exclusive_ignore)
        ELSE local_entries[m].state # remote_state(remote_entry)

\* ActionModule._get_entries_to_delete, lines 284-342: the decision for one
\* remote entry.
is_deleted(remote_entry, local_entries, remote_path, exclusive, exclusive_ignore) ==
    LET absolute_path == remote_entry.path
        relative_path == relative_to(absolute_path, PurePath(remote_path))
        m == local_match(local_entries, absolute_path)
    IN  IF m = 0
        THEN exclusive /\ ~ignore_match(relative_path, exclusive_ignore)
        ELSE local_entries[m].state # remote_state(remote_entry)

\* ActionModule._get_entries_to_delete: raises when an absolute ignore path
\* is not under remote_path, else yields the remote entries to delete, in
\* listing order.
_get_entries_to_delete(local_entries, remote_entries, remote_path, exclusive, exclusive_ignore) ==
    LET ignore == rewrite_ignore(exclusive_ignore, remote_path)
    IN  IF \E i \in 1..Len(ignore) : ignore[i] = Raised
        THEN [raised |-> TRUE, entries |-> <<>>]
        ELSE [raised |-> FALSE,
              entries |-> SelectSeq(remote_entries, LAMBDA r :
                  is_deleted(r, local_entries, remote_path, exclusive, ignore))]

(***************************************************************************)
(* The collaborators that change the destination: the file module with     *)
(* state=absent and state=directory, and the copy action.  The destination *)
(* is a sequence of objects [path, isdir, isreg, content], in the order    *)
(* the find module enumerates them.                                        *)
(***************************************************************************)
\* The object of the tree at path pp, as a set (empty if there is none).
ObjectsAt(tree, pp) ==
    {i \in 1..Len(tree) : PurePath(tree[i].path) = pp}

\* Is pp an existing directory?  The filesystem root always is.
IsDirAt(tree, pp) ==
    \/ pp = <<(<<sep>>)>>
    \/ \E i \in ObjectsAt(tree, pp) : tree[i].isdir

\* Stands for the absence of the 'msg' key.
NoMsg == <<>>

\* A result of a module run, with the keys _build_output reads.
Result(state, path, changed, failed, diff) ==
    [state |-> state, path |-> path, changed |-> changed, failed |-> failed,
     msg |-> IF failed THEN <<"failed", state>> \o path ELSE NoMsg,
     diff |-> diff]

\* A diff key of a result: absent, one diff, or a list of diffs.
NoDiff == [present |-> FALSE, is_list |-> FALSE, diffs |-> <<>>]
OneDiff(d) == [present |-> TRUE, is_list |-> FALSE, diffs |-> <<d>>]
DiffList(ds) == [present |-> TRUE, is_list |-> TRUE, diffs |-> ds]

\* ansible.builtin.file, state=absent: the path and all below it are removed;
\* changed only when the path existed.
remove_tree(tree, path) ==
    SelectSeq(tree, LAMBDA o : ~is_relative_to(PurePath(o.path), PurePath(path)))

remove_result(tree, path) ==
    Result("absent", path, ObjectsAt(tree, PurePath(path)) # {}, FALSE,
           OneDiff(<<"absent", path>>))

\* ansible.builtin.file, state=directory: fails when the path or one of its
\* ancestors is not a directory, else creates what is missing of the path.
directory_fails(tree, path) ==
    LET pp == PurePath(path)
    IN  \E n \in 1..Len(pp) :
            /\ ObjectsAt(tree, SubSeq(pp, 1, n)) # {}
            /\ ~IsDirAt(tree, SubSeq(pp, 1, n))

RECURSIVE make_dirs(_, _, _)
make_dirs(tree, pp, n) ==
    IF n > Len(pp) THEN tree
    ELSE IF IsDirAt(tree, SubSeq(pp, 1, n)) THEN make_dirs(tree, pp, n + 1)
    ELSE make_dirs(Append(tree, [path |-> PathStr(SubSeq(pp, 1, n)),
                                 isdir |-> TRUE, isreg |-> FALSE,
                                 content |-> NoContent]),
                   pp, n + 1)

directory_tree(tree, path) == make_dirs(tree, PurePath(path), 1)

directory_result(tree, path) ==
    IF directory_fails(tree, path)
    THEN Result("directory", path, FALSE, TRUE, NoDiff)
    ELSE Result("directory", path, ~IsDirAt(tree, PurePath(path)), FALSE,
                OneDiff(<<"directory", path>>))

\* ansible.builtin.copy with content: fails when dest is a directory (or
\* names one by a trailing separator), when something that is not a regular
\* file is in its place, or when its parent directory is missing; changed
\* only when the file is new or its text differs.
copy_fails(tree, dest) ==
    LET pp == PurePath(dest)
    IN  \/ EndsWith(dest, <<sep>>)
        \/ pp = <<>>
        \/ \E i \in ObjectsAt(tree, pp) : ~tree[i].isreg
        \/ ~IsDirAt(tree, SubSeq(pp, 1, Len(pp) - 1))

copy_tree(tree, dest, content) ==
    LET pp == PurePath(dest)
    IN  IF ObjectsAt(tree, pp) # {}
        THEN [i \in 1..Len(tree) |->
                 IF i \in ObjectsAt(tree, pp)
                 THEN [tree[i] EXCEPT !.content = content] ELSE tree[i]]
        ELSE Append(tree, [path |-> PathStr(pp), isdir |-> FALSE,
                           isreg |-> TRUE, content |-> content])

copy_result(tree, dest, content) ==
    IF copy_fails(tree, dest)
    THEN Result("file", dest, FALSE, TRUE, NoDiff)
    ELSE LET changed == copy_tree(tree, dest, content) # tree
         IN  Result("file", dest, changed, FALSE,
                    IF changed THEN DiffList(<< <<"file", dest>> >>) ELSE NoDiff)

(***************************************************************************)
(* ActionModule._build_output                                              *)
(***************************************************************************)
\* The results of the given state, in operation order.
WithState(operation_results, state) ==
    SelectSeq(operation_results, LAMBDA r : r.state = state)

\* The fold of lines 410-428 over the diffs.
RECURSIVE output_diff(_)
output_diff(operation_results) ==
    IF operation_results = <<>> THEN <<>>
    ELSE Head(operation_results).diff.diffs \o output_diff(Tail(operation_results))

\* ActionModule._build_output: 'changed' is only set inside the loop, and
\* 'diff' only by a result that has one.
_build_output(operation_results) ==
    [failed |-> FALSE,
     msg |-> NoMsg,
     deleted_entries |-> WithState(operation_results, "absent"),
     managed_directories |-> WithState(operation_results, "directory"),
     managed_files |-> WithState(operation_results, "file"),
     has_changed |-> operation_results # <<>>,
     changed |-> \E i \in 1..Len(operation_results) : operation_results[i].changed,
     has_diff |-> \E i \in 1..Len(operation_results) :
                     operation_results[i].diff.present,
     diff |-> output_diff(operation_results)]

\* The output of a run that has not returned one.
NoOutput ==
    [failed |-> FALSE, msg |-> NoMsg, deleted_entries |-> <<>>,
     managed_directories |-> <<>>, managed_files |-> <<>>,
     has_changed |-> FALSE, changed |-> FALSE, has_diff |-> FALSE, diff |-> <<>>]

(***************************************************************************)
(* The task arguments and the destinations that are tried.                 *)
(***************************************************************************)
\* The dest argument.
DestRoot == <<"/", "d">>

\* A path-like value of a task argument, and one that is not (an integer).
Str(text) == [pathlike |-> TRUE, text |-> text]
NotAPath == [pathlike |-> FALSE, text |-> <<>>]

\* The values of exclusive_ignore that are tried: none, a relative path, an
\* absolute path of a file below it, a list holding a value of an invalid
\* type, a scalar of an invalid type, and an absolute path outside dest.
IgnoreChoices ==
    { [is_list |-> TRUE, items |-> <<>>],
      [is_list |-> TRUE, items |-> <<Str(<<"k">>)>>],
      [is_list |-> FALSE, items |-> <<Str(<<"/", "d", "/", "k", "/", "f">>)>>],
      [is_list |-> TRUE, items |-> <<Str(<<"k">>), NotAPath>>],
      [is_list |-> FALSE, items |-> <<NotAPath>>],
      [is_list |-> TRUE, items |-> <<Str(<<"/", "e">>)>>] }

\* The src lists that are tried.
SrcLists ==
    UNION {[1..n -> SrcChoices] : n \in 1..MaxRoots}

\* An object of the destination.
Dir(path) == [path |-> path, isdir |-> TRUE, isreg |-> FALSE, content |-> NoContent]
File(path, text) ==
    [path |-> path, isdir |-> FALSE, isreg |-> TRUE, content |-> <<"text", text>>]
Other(path) == [path |-> path, isdir |-> FALSE, isreg |-> FALSE, content |-> NoContent]

\* The destinations a run starts from: an empty one; one with a directory
\* and a special file where files are planned, an ignored directory with a
\* file in it, and a stray file; one with files where directories and files
\* are planned, and a stray file.
DestTrees ==
    { <<Dir(DestRoot)>>,
      <<Dir(DestRoot),
        Dir(<<"/", "d", "/", "x">>),
        File(<<"/", "d", "/", "x", "/", "c">>, "C"),
        Other(<<"/", "d", "/", "t">>),
        Dir(<<"/", "d", "/", "k">>),
        File(<<"/", "d", "/", "k", "/", "f">>, "F"),
        File(<<"/", "d", "/", "k", "k">>, "K")>>,
      <<Dir(DestRoot),
        File(<<"/", "d", "/", "a">>, "Z"),
        File(<<"/", "d", "/", "d">>, "Z"),
        File(<<"/", "d", "/", "x">>, "Z"),
        File(<<"/", "d", "/", "t">>, "Z"),
        File(<<"/", "d", "/", "o">>, "O")>> }

(***************************************************************************)
(* The state of a run.                                                     *)
(***************************************************************************)
VARIABLES
    args,           \* self._task.args
    tree,           \* the destination
    pc,             \* "start", "execute", "returned" (run() returned its
                    \* output) or "raised" (run() raised an AnsibleError)
    to_create,      \* the planned entries
    to_delete,      \* the remote entries to delete
    results,        \* the results of the operations done so far
    output,         \* the output run() returned
    error,          \* the message of the error run() raised
    ops,            \* the operations invoked so far in this run
    run_no,         \* 1 in the first run, 2 in the run repeated after it
    tree_start,     \* the destination when the run started
    first           \* the destination and the output of the first run

vars == <<args, tree, pc, to_create, to_delete, results, output, error, ops,
          run_no, tree_start, first>>

\* The message of no error.
NoError == <<>>

Init ==
    /\ args \in [has_src : BOOLEAN, has_dest : BOOLEAN, src : SrcLists,
                 dest : {DestRoot}, owner : {None}, group : {None},
                 file_mode : {None}, directory_mode : {None},
                 exclusive : BOOLEAN, exclusive_ignore : IgnoreChoices]
    /\ tree \in DestTrees
    /\ pc = "start"
    /\ to_create = <<>>
    /\ to_delete = <<>>
    /\ results = <<>>
    /\ output = NoOutput
    /\ error = NoError
    /\ ops = <<>>
    /\ run_no = 1
    /\ tree_start = tree
    /\ first = [tree |-> <<>>, output |-> NoOutput]

\* ActionModule.run, lines 40-49: the planned entries with their contents.
planned_entries(a) ==
    _set_file_contents(
        _get_entries_to_create(_get_local_entries(a.src), a.dest, a.owner,
                               a.group, a.file_mode, a.directory_mode))

\* ActionModule.run, lines 51-55
planned_deletes(a, t) ==
    _get_entries_to_delete(planned_entries(a), _get_remote_entries(t, a.dest),
                           a.dest, a.exclusive,
                           _parse_path_list(a.exclusive_ignore).paths)

\* ActionModule.run, lines 19-23: a required argument is missing.
RunMissingArgument ==
    /\ pc = "start"
    /\ ~(args.has_src /\ args.has_dest)
    /\ pc' = "returned"
    /\ output' = [NoOutput EXCEPT
                     !.failed = TRUE,
                     !.msg = IF ~args.has_src
                             THEN <<"missing required argument", "src">>
                             ELSE <<"missing required argument", "dest">>]
    /\ UNCHANGED <<args, tree, to_create, to_delete, results, error, ops,
                   run_no, tree_start, first>>

\* ActionModule.run, line 36 and lines 51-55: _parse_path_list or the
\* rewriting of the ignore paths raises.
RunInvalidArgument ==
    /\ pc = "start"
    /\ args.has_src /\ args.has_dest
    /\ \/ _parse_path_list(args.exclusive_ignore).raised
       \/ planned_deletes(args, tree).raised
    /\ pc' = "raised"
    /\ error' = IF _parse_path_list(args.exclusive_ignore).raised
                THEN <<"exclusive_ignore", _parse_path_list(args.exclusive_ignore).msg>>
                ELSE <<"ValueError">>
    /\ UNCHANGED <<args, tree, to_create, to_delete, results, output, ops,
                   run_no, tree_start, first>>

\* ActionModule.run, line 49: the template lookup or the read of a source
\* file raises (lines 256 and 264), after _parse_path_list and before the
\* delete list is built.
RunContentUnavailable ==
    /\ pc = "start"
    /\ args.has_src /\ args.has_dest
    /\ ~_parse_path_list(args.exclusive_ignore).raised
    /\ \E n \in 1..Len(planned_entries(args)) :
           /\ planned_entries(args)[n].state = "file"
           /\ error' = <<"content unavailable">> \o planned_entries(args)[n].src
    /\ pc' = "raised"
    /\ UNCHANGED <<args, tree, to_create, to_delete, results, output, ops,
                   run_no, tree_start, first>>

\* ActionModule.run, lines 25-55: the plan of the run.
RunPlan ==
    /\ pc = "start"
    /\ args.has_src /\ args.has_dest
    /\ ~_parse_path_list(args.exclusive_ignore).raised
    /\ ~planned_deletes(args, tree).raised
    /\ to_create' = planned_entries(args)
    /\ to_delete' = planned_deletes(args, tree).entries
    /\ pc' = "execute"
    /\ UNCHANGED <<args, tree, results, output, error, ops, run_no,
                   tree_start, first>>

\* The operation that run() invokes next: removes first (line 57), then
\* creates (line 58).
NextIsDelete == pc = "execute" /\ Len(results) < Len(to_delete)
NextIsCreate ==
    /\ pc = "execute"
    /\ Len(results) >= Len(to_delete)
    /\ Len(results) < Len(to_delete) + Len(to_create)
\* A faulty next_delete, which takes the delete list from its end.
next_delete_reversed == to_delete[Len(to_delete) - Len(results)]

next_delete == to_delete[Len(results) + 1]
next_create == to_create[Len(results) - Len(to_delete) + 1]

\* An invoked operation, as the log keeps it.
Op(kind, path) == [op |-> kind, path |-> path]

\* ActionModule._delete_entries, one iteration: the file module removes the
\* entry (line 356).
DeleteEntry ==
    /\ NextIsDelete
    /\ LET path == PathStr(next_delete.path)
       IN  /\ ops' = Append(ops, Op("remove", path))
           /\ results' = Append(results, remove_result(tree, path))
           /\ tree' = remove_tree(tree, path)
    /\ UNCHANGED <<args, pc, to_create, to_delete, output, error, run_no,
                   tree_start, first>>

\* ActionModule._delete_entries, one iteration: the file module reports
\* failed (line 355).
DeleteEntryFailed ==
    /\ NextIsDelete
    /\ LET path == PathStr(next_delete.path)
           res == Result("absent", path, FALSE, TRUE, NoDiff)
       IN  /\ ops' = Append(ops, Op("remove", path))
           /\ error' = res.msg
    /\ pc' = "raised"
    /\ UNCHANGED <<args, tree, to_create, to_delete, results, output, run_no,
                   tree_start, first>>

\* The result and the effect of the create operation of an entry
\* (ActionModule._copy_file, ActionModule._create_directory).
create_result(t, entry) ==
    IF entry.state = "file" THEN copy_result(t, entry.dest, entry.content)
    ELSE directory_result(t, entry.dest)

create_tree(t, entry) ==
    IF entry.state = "file" THEN copy_tree(t, entry.dest, entry.content)
    ELSE directory_tree(t, entry.dest)

create_op(entry) ==
    Op(IF entry.state = "file" THEN "copy" ELSE "directory", entry.dest)

\* ActionModule._create_entries, one iteration: the entry is written
\* (line 367).
CreateEntry ==
    /\ NextIsCreate
    /\ ~create_result(tree, next_create).failed
    /\ ops' = Append(ops, create_op(next_create))
    /\ results' = Append(results, create_result(tree, next_create))
    /\ tree' = create_tree(tree, next_create)
    /\ UNCHANGED <<args, pc, to_create, to_delete, output, error, run_no,
                   tree_start, first>>

\* ActionModule._create_entries, one iteration: the destination does not
\* admit the entry and the module reports failed (line 366).
CreateEntryRejected ==
    /\ NextIsCreate
    /\ create_result(tree, next_create).failed
    /\ ops' = Append(ops, create_op(next_create))
    /\ error' = create_result(tree, next_create).msg
    /\ pc' = "raised"
    /\ UNCHANGED <<args, tree, to_create, to_delete, results, output, run_no,
                   tree_start, first>>

\* A faulty CreateEntryFailed, which keeps the failed result and goes on with
\* the next entry instead of raising.
CreateEntryFailedContinues ==
    /\ NextIsCreate
    /\ ~create_result(tree, next_create).failed
    /\ ops' = Append(ops, create_op(next_create))
    /\ results' = Append(results,
                      Result(next_create.state, next_create.dest, FALSE, TRUE, NoDiff))
    /\ UNCHANGED <<args, tree, pc, to_create, to_delete, output, error, run_no,
                   tree_start, first>>

\* ActionModule._create_entries, one iteration: the module reports failed
\* for a reason of its own (line 366).
CreateEntryFailed ==
    /\ NextIsCreate
    /\ ~create_result(tree, next_create).failed
    /\ ops' = Append(ops, create_op(next_create))
    /\ error' = Result(next_create.state, next_create.dest, FALSE, TRUE, NoDiff).msg
    /\ pc' = "raised"
    /\ UNCHANGED <<args, tree, to_create, to_delete, results, output, run_no,
                   tree_start, first>>

\* ActionModule.run, lines 60-61: every operation is done.
RunReturn ==
    /\ pc = "execute"
    /\ Len(results) = Len(to_delete) + Len(to_create)
    /\ output' = _build_output(results)
    /\ pc' = "returned"
    /\ first' = IF run_no = 1
                THEN [tree |-> tree, output |-> _build_output(results)]
                ELSE first
    /\ UNCHANGED <<args, tree, to_create, to_delete, results, error, ops,
                   run_no, tree_start>>

\* The task is run again, with the same arguments, on the destination the
\* first run left.
RunAgain ==
    /\ pc = "returned"
    /\ run_no = 1
    /\ ~output.failed
    /\ run_no' = 2
    /\ pc' = "start"
    /\ to_create' = <<>>
    /\ to_delete' = <<>>
    /\ results' = <<>>
    /\ output' = NoOutput
    /\ ops' = <<>>
    /\ tree_start' = tree
    /\ UNCHANGED <<args, tree, error, first>>

\* One run, with collaborators that may report failed.
Next ==
    \/ RunMissingArgument
    \/ RunInvalidArgument
    \/ RunContentUnavailable
    \/ RunPlan
    \/ DeleteEntry
    \/ DeleteEntryFailed
    \/ CreateEntry
    \/ CreateEntryRejected
    \/ CreateEntryFailed
    \/ RunReturn

Spec == Init /\ [][Next]_vars

\* Two runs in succession, with collaborators that do not fail and sources
\* that can be read.
NextTwice ==
    \/ RunMissingArgument
    \/ RunInvalidArgument
    \/ RunPlan
    \/ DeleteEntry
    \/ CreateEntry
    \/ CreateEntryRejected
    \/ RunReturn
    \/ RunAgain

SpecTwice == Init /\ [][NextTwice]_vars

\* The values of the 'diff' key of a result that are tried: no key, one
\* diff, a list of two diffs, and an empty list.
DiffChoices == {NoDiff, OneDiff("p"), DiffList(<<"q", "r">>), DiffList(<<>>)}

\* The operation results that are tried: of every state and of none,
\* changed or not, with every kind of diff.
ResultChoices ==
    {Result(state, DestRoot, changed, FALSE, diff) :
        state \in {"absent", "directory", "file", None},
        changed \in BOOLEAN, diff \in DiffChoices}

\* _build_output on its own: any list of operation results.
InitOutput ==
    /\ results \in UNION {[1..n -> ResultChoices] : n \in 0..MaxResults}
    /\ pc = "build"
    /\ output = NoOutput
    /\ args = [has_src |-> TRUE, has_dest |-> TRUE, src |-> <<>>,
               dest |-> DestRoot, owner |-> None, group |-> None,
               file_mode |-> None, directory_mode |-> None,
               exclusive |-> FALSE,
               exclusive_ignore |-> [is_list |-> TRUE, items |-> <<>>]]
    /\ tree = <<>>
    /\ to_create = <<>>
    /\ to_delete = <<>>
    /\ error = NoError
    /\ ops = <<>>
    /\ run_no = 1
    /\ tree_start = <<>>
    /\ first = [tree |-> <<>>, output |-> NoOutput]

\* ActionModule._build_output, applied to the list.
BuildOutput ==
    /\ pc = "build"
    /\ output' = _build_output(results)
    /\ pc' = "built"
    /\ UNCHANGED <<args, tree, to_create, to_delete, results, error, ops,
                   run_no, tree_start, first>>

NextOutput == BuildOutput

SpecOutput == InitOutput /\ [][NextOutput]_vars
(***************************************************************************)
(* Properties.                                                             *)
(***************************************************************************)
\* The elements of a sequence.
Range(seq) == {seq[i] : i \in 1..Len(seq)}

\* The listing the plan of the current run was computed from.
Listing == _get_remote_entries(tree_start, args.dest)

\* Is some planned entry at the path of the remote entry?
Planned(r) == \E i \in 1..Len(to_create) : PurePath(to_create[i].dest) = r.path

\* C1: a second run with the same sources and arguments, after a first run
\* that completed without error, does not raise, reports changed=false and
\* leaves the destination as the first run left it.
C1_Idempotence ==
    run_no = 2 =>
        /\ pc # "raised"
        /\ pc = "returned" =>
              /\ ~output.failed
              /\ ~output.changed
              /\ Range(tree) = Range(first.tree)

\* The parts of an ignore path, those of an absolute one taken relative to
\* the destination root.
IgnoreParts(item) ==
    LET parts == PurePath(item.text)
        root == PurePath(args.dest)
    IN  IF StartsWith(item.text, <<sep>>)
        THEN SubSeq(parts, Len(root) + 1, Len(parts))
        ELSE parts

\* Is the path (its parts) equal to the ignore path g or nested under it,
\* segment by segment?
AtOrUnder(parts, g) ==
    /\ Len(g) <= Len(parts)
    /\ \A n \in 1..Len(g) : parts[n] = g[n]

\* Is the remote entry exempted by exclusive_ignore?
Ignored(r) ==
    \E n \in 1..Len(args.exclusive_ignore.items) :
        AtOrUnder(SubSeq(r.path, Len(PurePath(args.dest)) + 1, Len(r.path)),
                  IgnoreParts(args.exclusive_ignore.items[n]))

\* C2: a remote entry at the path of no planned entry is in the delete list
\* if and only if exclusive is set and the entry is neither at nor under an
\* exclusive_ignore path.
C2_ExclusiveDeletion ==
    pc = "execute" =>
        \A r \in Range(Listing) :
            ~Planned(r) =>
                (r \in Range(to_delete) <=> (args.exclusive /\ ~Ignored(r)))

\* C2 witness: an exclusive plan over a destination with a stray entry that
\* is deleted, an ignored entry and an entry under it that are kept, and an
\* entry whose name only starts like the ignored one, which is deleted.
C2_Witness ==
    /\ pc = "execute"
    /\ args.exclusive
    /\ \E r \in Range(Listing) :
           ~Planned(r) /\ Ignored(r) /\ Len(r.path) = 4 /\ r \notin Range(to_delete)
    /\ \E r \in Range(Listing) :
           /\ ~Planned(r)
           /\ r.path = PurePath(<<"/", "d", "/", "k", "k">>)
           /\ r \in Range(to_delete)

\* The kind of a remote entry.
KindOf(r) == IF r.isdir THEN "directory" ELSE IF r.isreg THEN "file" ELSE "other"

\* C3: a remote entry whose kind differs from that of a planned entry at its
\* path is in the delete list, whatever exclusive and exclusive_ignore are.
C3_KindMismatchDeleted ==
    pc = "execute" =>
        \A r \in Range(Listing) :
            \A i \in 1..Len(to_create) :
                (PurePath(to_create[i].dest) = r.path /\ to_create[i].state # KindOf(r))
                    => r \in Range(to_delete)

\* C4: the delete list holds no remote entry at the path of a planned entry
\* of the same kind.
C4_NoDeleteOfMatching ==
    pc = "execute" =>
        \A r \in Range(to_delete) :
            \A i \in 1..Len(to_create) :
                ~(PurePath(to_create[i].dest) = r.path /\ to_create[i].state = KindOf(r))

\* C5: no two entries of the create list have the same dest.
C5_UniqueDest ==
    pc = "execute" =>
        \A i, j \in 1..Len(to_create) :
            to_create[i].dest = to_create[j].dest => i = j

\* The regular files a source root contributes, each as <<relative path,
\* source file>>: the file itself for a file root, every file below it for
\* a directory root.
RootFiles(local_path) ==
    LET found == path_dwim_relative(local_path)
    IN  IF found \in DOMAIN LocalFiles
        THEN {<<basename(found), found>>}
        ELSE {<<SubSeq(f, Len(found) + 2, Len(f)), f>> :
                 f \in {g \in DOMAIN LocalFiles : StartsWith(g, found \o <<sep>>)}}

\* C6: when two roots contribute different files for the same relative path,
\* the plan has no entry for the later root's file, and after the run the
\* destination of the earlier root's entry holds the earlier root's content.
C6_FirstRootWins ==
    \A i, j \in 1..Len(args.src) :
        \A c1 \in RootFiles(args.src[i]), c2 \in RootFiles(args.src[j]) :
            (i < j /\ c1[1] = c2[1] /\ c1[2] # c2[2]) =>
                /\ pc = "execute" =>
                      \A n \in 1..Len(to_create) :
                          ~(to_create[n].state = "file" /\ normpath(to_create[n].src) = c2[2])
                /\ (pc = "returned" /\ ~output.failed) =>
                      \A n \in 1..Len(to_create) :
                          (to_create[n].state = "file" /\ normpath(to_create[n].src) = c1[2]) =>
                              \E o \in Range(tree) :
                                  /\ PurePath(o.path) = PurePath(to_create[n].dest)
                                  /\ o.content = to_create[n].content

\* Is one sequence the other with some elements left out, in the same order?
RECURSIVE IsSubsequence(_, _)
IsSubsequence(sub, seq) ==
    IF sub = <<>> THEN TRUE
    ELSE IF seq = <<>> THEN FALSE
    ELSE IF Head(sub) = Head(seq) THEN IsSubsequence(Tail(sub), Tail(seq))
    ELSE IsSubsequence(sub, Tail(seq))

\* The local entries that are planned, in enumeration order.
PlannedLocalEntries ==
    SelectSeq(_get_local_entries(args.src),
              LAMBDA l : l.state \in {"file", "directory"})

\* C7: the operations invoked are the removes of the delete list, in the
\* order of the destination listing, and only then the creates, in the order
\* of the local entries; no create precedes a remove.
C7_DeleteThenCreate ==
    /\ \A m, n \in 1..Len(ops) :
           (ops[m].op # "remove" /\ ops[n].op = "remove") => n < m
    /\ (pc = "execute" /\ ops = <<>>) =>
           LET local == PlannedLocalEntries
           IN  /\ IsSubsequence(to_delete, Listing)
               /\ Len(to_create) = Len(local)
               /\ \A n \in 1..Len(to_create) :
                      /\ to_create[n].state = local[n].state
                      /\ to_create[n].src = local[n].src
    /\ \A n \in 1..Len(ops) :
           IF n <= Len(to_delete)
           THEN ops[n] = [op |-> "remove", path |-> PathStr(to_delete[n].path)]
           ELSE /\ ops[n].op = IF to_create[n - Len(to_delete)].state = "file"
                               THEN "copy" ELSE "directory"
                /\ ops[n].path = to_create[n - Len(to_delete)].dest

\* C7 witness: a run that returned after several removes and several creates.
C7_Witness ==
    /\ pc = "returned"
    /\ Cardinality({n \in 1..Len(ops) : ops[n].op = "remove"}) >= 2
    /\ Cardinality({n \in 1..Len(ops) : ops[n].op # "remove"}) >= 2

\* The destination after the first k operations of the plan.
RECURSIVE AfterOps(_)
AfterOps(k) ==
    IF k = 0 THEN tree_start
    ELSE IF k <= Len(to_delete)
    THEN remove_tree(AfterOps(k - 1), PathStr(to_delete[k].path))
    ELSE create_tree(AfterOps(k - 1), to_create[k - Len(to_delete)])

\* The kind of module result an operation of the log gives.
ResultState(o) ==
    IF o.op = "remove" THEN "absent" ELSE IF o.op = "copy" THEN "file" ELSE "directory"

\* C8: when an operation reports failed, run() raises with the message of
\* that operation, nothing is invoked after it, the effects of the
\* operations before it stay, and no output is produced; the results that
\* run() keeps are never failed ones.
C8_AbortOnFailure ==
    /\ \A n \in 1..Len(results) : ~results[n].failed
    /\ (pc = "raised" /\ ops # <<>>) =>
           LET k == Len(ops)
           IN  /\ error = <<"failed", ResultState(ops[k])>> \o ops[k].path
               /\ Len(results) = k - 1
               /\ tree = AfterOps(k - 1)
               /\ output = NoOutput
               /\ ~ENABLED Next

\* C8 witness: the run raised at a create, after removes and creates that
\* changed the destination.
C8_Witness ==
    /\ pc = "raised"
    /\ Len(ops) >= 4
    /\ ops[1].op = "remove"
    /\ ops[Len(ops)].op = "copy"
    /\ \E n \in 1..Len(results) : results[n].changed /\ results[n].state = "directory"
    /\ tree # tree_start

\* Is an argument of the task invalid: src or dest missing, a value of
\* exclusive_ignore that is not a path, or an absolute one outside dest?
InvalidArguments ==
    \/ ~args.has_src
    \/ ~args.has_dest
    \/ \E n \in 1..Len(args.exclusive_ignore.items) :
           LET item == args.exclusive_ignore.items[n]
           IN  \/ ~item.pathlike
               \/ /\ StartsWith(item.text, <<sep>>)
                  /\ ~AtOrUnder(PurePath(item.text), PurePath(args.dest))

\* C9: with invalid arguments the run ends in failure without having
\* invoked any operation, and the destination is as it was.
C9_FailFast ==
    InvalidArguments =>
        /\ pc \in {"start", "returned", "raised"}
        /\ pc = "returned" => output.failed
        /\ ops = <<>>
        /\ tree = tree_start

\* C9 witness: an exclusive run over a populated destination raised on an
\* absolute ignore path outside dest.
C9_Witness ==
    /\ pc = "raised"
    /\ args.exclusive
    /\ args.has_src /\ args.has_dest
    /\ \A n \in 1..Len(args.exclusive_ignore.items) :
           args.exclusive_ignore.items[n].pathlike
    /\ Len(tree) > 1
    /\ ops = <<>>

\* The path an entry was mapped to, before the template suffix was taken off.
MappedPath(entry) ==
    IF entry.template THEN entry.dest \o TEMPLATE_EXTENSION ELSE entry.dest

\* The normalized path of destination_root / segment / relative_path.
UnderRoot(segment, relative_path) ==
    normpath(args.dest \o <<sep>> \o segment \o <<sep>> \o relative_path)

ExpectedMapped(l) ==
    IF l.root[Len(l.root)] = sep THEN UnderRoot(<<>>, l.path)
    ELSE UnderRoot(basename(l.root), l.path)

\* C11: a planned entry is a template exactly when it is a file whose mapped
\* path ends with ".j2", and its dest is then the mapped path without that
\* one suffix; a directory is never a template and keeps its mapped path.
C11_TemplateStripping ==
    (pc = "execute" /\ ops = <<>>) =>
        LET local == PlannedLocalEntries
        IN  \A n \in 1..Len(to_create) :
                LET e == to_create[n]
                    mapped == ExpectedMapped(local[n])
                    suffixed == /\ Len(mapped) >= 3
                                /\ mapped[Len(mapped) - 2] = "."
                                /\ mapped[Len(mapped) - 1] = "j"
                                /\ mapped[Len(mapped)] = "2"
                IN  /\ e.template <=> (e.state = "file" /\ suffixed)
                    /\ e.template => e.dest \o <<".", "j", "2">> = mapped
                    /\ e.state = "directory" => (~e.template /\ e.dest = mapped)

\* C11 witness: a plan with a template file, a plain file, and a directory
\* whose name ends with ".j2".
C11_Witness ==
    /\ pc = "execute"
    /\ ops = <<>>
    /\ \E n \in 1..Len(to_create) :
           /\ to_create[n].template
           /\ to_create[n].dest = <<"/", "d", "/", "t">>
    /\ \E n \in 1..Len(to_create) :
           to_create[n].state = "file" /\ ~to_create[n].template
    /\ \E n \in 1..Len(to_create) :
           /\ to_create[n].state = "directory"
           /\ to_create[n].dest = <<"/", "d", "/", "d", "/", "z", ".", "j", "2">>

\* Is the path strictly nested under the other one?
StrictlyUnder(path, other) ==
    /\ Len(PurePath(other)) < Len(PurePath(path))
    /\ AtOrUnder(PurePath(path), PurePath(other))

\* C12: when the create list has a directory entry and an entry strictly
\* nested under its dest, an entry for the directory's dest comes before the
\* first entry for the nested dest.
C12_ParentBeforeChild ==
    (pc = "execute" /\ ops = <<>>) =>
        \A i, j \in 1..Len(to_create) :
            (/\ to_create[i].state = "directory"
             /\ StrictlyUnder(to_create[j].dest, to_create[i].dest)) =>
                \E k \in 1..Len(to_create) :
                    /\ to_create[k].dest = to_create[i].dest
                    /\ \A m \in 1..Len(to_create) :
                           to_create[m].dest = to_create[j].dest => k < m

\* Is there an object of the destination at the path of the remote entry?
StillThere(r) == \E o \in Range(tree) : PurePath(o.path) = r.path

\* C13: after an exclusive run that completed without error, every object
\* that was at or under an exclusive_ignore path, at the path of no planned
\* entry, is still there.
C13_IgnoredSurvive ==
    (pc = "returned" /\ ~output.failed /\ args.exclusive) =>
        \A r \in Range(Listing) :
            (Ignored(r) /\ ~Planned(r)) => StillThere(r)

\* The objects the run started with, below the destination root, at the
\* path of no planned entry.
Unmanaged ==
    {o \in Range(tree_start) :
        /\ StrictlyUnder(o.path, args.dest)
        /\ \A n \in 1..Len(to_create) : PurePath(to_create[n].dest) # PurePath(o.path)}

\* C14 as stated: in a run that is not exclusive, every object at the path of
\* no planned entry stays as it was, also one located under a directory that
\* is deleted because a file is planned at its path.
C14_UnmanagedPreserved ==
    (pc # "start" /\ ~args.exclusive) =>
        \A o \in Unmanaged : o \in Range(tree)

\* Is the object located under a directory the run started with, at whose
\* path a file is planned?
UnderReplacedDirectory(o) ==
    \E r \in Range(tree_start) :
        /\ r.isdir
        /\ StrictlyUnder(r.path, args.dest)
        /\ StrictlyUnder(o.path, r.path)
        /\ \E n \in 1..Len(to_create) :
               /\ PurePath(to_create[n].dest) = PurePath(r.path)
               /\ to_create[n].state = "file"

\* C14, amended: in a run that is not exclusive, every object at the path of
\* no planned entry, and not located under a directory at whose path a file
\* is planned, stays as it was.
C14_UnmanagedPreservedOutsideDeleted ==
    (pc # "start" /\ ~args.exclusive) =>
        \A o \in Unmanaged :
            ~UnderReplacedDirectory(o) => o \in Range(tree)

\* C14 witness: a run that is not exclusive returned after it removed a
\* directory in the place of a planned file, with what was in it, and left a
\* stray file alone.
C14_Witness ==
    /\ pc = "returned"
    /\ ~args.exclusive
    /\ \E n \in 1..Len(to_delete) : to_delete[n].isdir
    /\ \E o \in Unmanaged : o \notin Range(tree)
    /\ \E o \in Unmanaged :
           /\ o \in Range(tree)
           /\ o.path = <<"/", "d", "/", "k", "/", "f">>

\* The kind of an object of the destination.
ObjectKind(o) == IF o.isdir THEN "directory" ELSE IF o.isreg THEN "file" ELSE "other"

\* C15: after an exclusive run without ignore paths that completed without
\* error, every planned path exists with its planned kind and every object
\* below the destination root is at a planned path, with the planned kind.
C15_ExclusiveConvergence ==
    (/\ pc = "returned"
     /\ ~output.failed
     /\ args.exclusive
     /\ args.exclusive_ignore.items = <<>>) =>
        /\ \A n \in 1..Len(to_create) :
               \E o \in Range(tree) :
                   /\ PurePath(o.path) = PurePath(to_create[n].dest)
                   /\ ObjectKind(o) = to_create[n].state
        /\ \A o \in Range(tree) :
               StrictlyUnder(o.path, args.dest) =>
                   \E n \in 1..Len(to_create) :
                       /\ PurePath(to_create[n].dest) = PurePath(o.path)
                       /\ to_create[n].state = ObjectKind(o)

\* Did the run raise because a source file could not be read or rendered?
ContentUnavailable == pc = "raised" /\ error # <<>> /\ error[1] = "content unavailable"

\* C16: once the plan is made, and so before any operation is invoked, every
\* file entry has its content, rendered if it is a template and read as it is
\* otherwise, and no directory entry has one; a run that cannot resolve a
\* content has invoked no operation and left the destination as it was.
C16_ContentBeforeMutation ==
    /\ (pc = "execute" \/ ops # <<>>) =>
           \A n \in 1..Len(to_create) :
               LET e == to_create[n]
               IN  IF e.state = "file"
                   THEN e.content =
                            <<IF e.template THEN "rendered" ELSE "text",
                              LocalFiles[normpath(e.src)]>>
                   ELSE e.content = NoContent
    /\ ContentUnavailable => (ops = <<>> /\ tree = tree_start /\ ~ENABLED Next)

\* C16 witness: a run over a populated destination raised because a source
\* file could not be read.
C16_Witness ==
    /\ ContentUnavailable
    /\ Len(tree) > 1
    /\ args.exclusive

\* Is the path string free of "." and ".." segments and of a trailing
\* separator?
Normalized(d) ==
    /\ \A n \in 1..Len(Split(d)) : Split(d)[n] # <<".">> /\ Split(d)[n] # <<".", ".">>
    /\ (d = <<sep>> \/ ~EndsWith(d, <<sep>>))

\* C17: the dest of every planned entry has no "." or ".." segment and no
\* trailing separator, and lies at or under the destination root, whatever
\* the name of the source file.
C17_NormalizedDest ==
    (pc = "execute" /\ ops = <<>>) =>
        \A n \in 1..Len(to_create) :
            /\ Normalized(to_create[n].dest)
            /\ AtOrUnder(PurePath(to_create[n].dest), PurePath(args.dest))

\* The concatenation of the diffs of the results, one diff counting as a
\* list of one.
RECURSIVE AllDiffs(_)
AllDiffs(rs) ==
    IF rs = <<>> THEN <<>>
    ELSE (IF ~Head(rs).diff.present THEN <<>>
          ELSE IF Head(rs).diff.is_list THEN Head(rs).diff.diffs
          ELSE <<Head(rs).diff.diffs[1]>>) \o AllDiffs(Tail(rs))

\* C18: for every list of operation results, the empty one included, the
\* output has a boolean changed, true exactly when some result changed; the
\* results with a state are in deleted_entries, managed_directories or
\* managed_files according to it, in operation order; diff is the
\* concatenation of the results' diffs.
C18_ResultAggregation ==
    pc = "built" =>
        /\ output.has_changed
        /\ output.changed = (\E i \in 1..Len(results) : results[i].changed)
        /\ output.deleted_entries = SelectSeq(results, LAMBDA r : r.state = "absent")
        /\ output.managed_directories =
               SelectSeq(results, LAMBDA r : r.state = "directory")
        /\ output.managed_files = SelectSeq(results, LAMBDA r : r.state = "file")
        /\ output.diff = AllDiffs(results)

\* The same for the lists that are not empty.
C18_NonEmptyAggregation ==
    (pc = "built" /\ results # <<>>) => C18_ResultAggregation

====
